---- MODULE Spec2Model ----
(***************************************************************************)
(* The fact-checking pipeline: run_pipeline (orchestrator.py), the four    *)
(* stage functions and the generation client with its pacer (agents.py).   *)
(*                                                                         *)
(* Time is kept relative: `elapsed` is now - _last_call_time and           *)
(* `since_request` is the time since the latest outbound request, both     *)
(* capped at _PACE_DELAY (the only value they are ever compared with).     *)
(* `events` holds the events the observer received since the latest        *)
(* `start` event (that event included).                                    *)
(***************************************************************************)
EXTENDS Integers, Sequences, FiniteSets, TLC

VARIABLES
    \* run_pipeline: arguments, configuration and locals
    claim, callback, max_researcher_retries,
    pc, results, retries, current_research, skeptic_out, audited,
    \* what the caller of run_pipeline gets
    outcome, report,
    \* history: stage invocations, events received by the observer
    invoked, events,
    \* _call_gemini / _call_gemini_stream: arguments, locals, result
    agent, stream_cb, cpc, attempt, full_text, response, error,
    \* history of one client call: chunks handed to stream_cb, client operations
    sink, clientLog, calls,
    \* _pace: the pacer's clock
    called, elapsed, since_request,
    \* threads inside _pace: where each is, the sleep it has left, the latest
    \* acquire that returned
    threads, tpc, remaining, acquired,
    \* _extract_json on its own: the text and what the call gave
    text, parsed,
    \* score_source on its own: the arguments, the calls made with the url
    url, scored

pipeVars == <<claim, max_researcher_retries, pc, results, retries,
              current_research, skeptic_out, audited, outcome, report, invoked>>
callVars == <<agent, stream_cb, cpc, attempt, full_text, response, error,
              sink, clientLog>>
timeVars == <<called, elapsed, since_request>>
pacerVars == <<threads, tpc, remaining, acquired>>
parserVars == <<text, parsed>>
scorerVars == <<url, scored>>
unitVars == <<pacerVars, parserVars, scorerVars>>
vars == <<pipeVars, callVars, timeVars, callback, events, calls, unitVars>>

---------------------------------------------------------------------------
(* Bounds of the model *)
MaxChunks == 1      \* chunks the service streams in one attempt
MaxLatency == 1     \* seconds one request to the service takes
MaxCalls == 2       \* direct calls of the client by one caller
MaxFindings == 1    \* audited findings in one audit reply
MaxEvidence == 1    \* evidence items in one research finding
MaxThreads == 2     \* threads that share the pacer
MaxText == 6        \* tokens of a text given to _extract_json on its own
MaxScored == 2      \* calls of score_source made with one url
MaxAudited == 2     \* audited findings in the audit reply of SpecAudit

(* Program constants *)
_MAX_RETRIES == 3
_BASE_DELAY == 12
_PACE_DELAY == 15
MAX_RESEARCHER_RETRIES == 2

None == [none |-> TRUE]

Cap(t) == IF t > _PACE_DELAY THEN _PACE_DELAY ELSE t

\* inside run_pipeline the model lets time pass in sleeps only
Latencies == IF pc = "caller" THEN 0..MaxLatency ELSE {0}

---------------------------------------------------------------------------
(* The observer: emit(agent, event, data) calls callback when there is one *)

Ev(a, e) == [agent |-> a, event |-> e]

RECURSIVE Received(_, _)
Received(seen, evs) ==
    IF evs = <<>> THEN seen
    ELSE Received(IF Head(evs).event = "start" THEN <<Head(evs)>>
                  ELSE Append(seen, Head(evs)),
                  Tail(evs))

emit(evs) == events' = IF callback = "none" THEN events ELSE Received(events, evs)

StreamEvents(n) == [i \in 1..n |-> Ev(agent, "stream")]

---------------------------------------------------------------------------
(* The generation service: what one attempt can answer *)

Chunks(k, n) == [i \in 1..n |-> <<k, i>>]

ChunkCounts == IF stream_cb THEN 0..MaxChunks ELSE {0}

\* the reply texts of the model: prose, an object in a fenced block, and an
\* object nested too deeply
Prose == <<[tok |-> "x"]>>
Json(obj) ==
    <<[tok |-> "fence"], [tok |-> "json"], [tok |-> " "], [tok |-> "{"],
      [tok |-> "members", obj |-> obj], [tok |-> "}"], [tok |-> " "], [tok |-> "fence"]>>
DeepJson == <<[tok |-> "{"], [tok |-> "deep"], [tok |-> "}"]>>

FindingVariants == [needs_more_research : BOOLEAN, research_suggestions : {"", "s"}]
AuditedLists == UNION {[1..n -> FindingVariants] : n \in 0..MaxFindings}
\* an evidence item with a source of the first tier, and one without source
Evidence ==
    {[source_url |-> [form |-> "absolute", host |-> <<"www", "reuters", "com">>]],
     [snippet |-> "s"]}
ResearchObjs ==
    {[sub_claims |-> <<"sub">>, findings |-> <<>>]} \cup
    {[findings |-> <<[evidence |-> e]>>] :
        e \in UNION {[1..n -> Evidence] : n \in 1..MaxEvidence}}
AuditObjs == {[audited_findings |-> l] : l \in AuditedLists}
AdversaryObjs == {[critiques |-> <<"c">>]}
JudgeObjs ==
    {[overall_verdict |-> "FALSE", overall_confidence |-> 10],
     [overall_verdict |-> "UNVERIFIABLE", overall_confidence |-> 150,
      sub_verdicts |-> <<[verdict |-> "LIKELY", confidence |-> -5]>>]}
ClientObjs == {[answer |-> "a"]}

Replies(a) ==
    {Prose, DeepJson} \cup
    {Json(o) : o \in CASE a = "researcher" -> ResearchObjs
                       [] a = "skeptic" -> AuditObjs
                       [] a = "adversary" -> AdversaryObjs
                       [] a = "judge" -> JudgeObjs
                       [] OTHER -> ClientObjs}

---------------------------------------------------------------------------
(* _pace *)

\* the two histories of a client call are kept for the direct calls of the
\* client; inside run_pipeline the call is seen through its result alone
Logged(log, entry) == IF pc = "caller" THEN Append(log, entry) ELSE log

Handed(chunks) == IF pc = "caller" THEN sink \o chunks ELSE sink

PaceWaitFromBackoff ==
    IF called /\ elapsed < _BASE_DELAY THEN _BASE_DELAY - elapsed ELSE 0

PaceWait == IF called /\ elapsed < _PACE_DELAY THEN _PACE_DELAY - elapsed ELSE 0

Advance(t, d) == IF t < 0 THEN t ELSE Cap(t + d)

_pace ==
    /\ cpc = "pace"
    /\ called' = TRUE
    /\ elapsed' = 0
    /\ since_request' = Advance(since_request, PaceWait)
    /\ clientLog' = Logged(clientLog, [op |-> "pace", wait |-> PaceWait])
    /\ cpc' = "attempt"
    /\ UNCHANGED <<agent, stream_cb, attempt, full_text, response, error, sink>>
    /\ UNCHANGED <<pipeVars, callback, unitVars, events, calls>>

---------------------------------------------------------------------------
(* _call_gemini and _call_gemini_stream: one attempt of the retry loop *)

EnterCall(a, scb) ==
    /\ agent' = a
    /\ stream_cb' = scb
    /\ cpc' = "pace"
    /\ attempt' = 0
    /\ full_text' = <<>>
    /\ response' = None
    /\ error' = "none"
    /\ sink' = <<>>
    /\ clientLog' = <<>>

\* the call returns to the stage function: its frame is gone
LeaveCall ==
    /\ cpc' = "idle"
    /\ attempt' = 0
    /\ full_text' = <<>>
    /\ response' = None
    /\ sink' = <<>>
    /\ clientLog' = <<>>
    /\ UNCHANGED <<agent, stream_cb, error>>

Request(d) ==
    /\ elapsed' = Cap(elapsed + d)
    /\ since_request' = Cap(d)
    /\ called' = called

\* the client log after the request of this attempt, which the service (or
\* stream_cb, on a chunk) answers with `answer`
Requested(answer) ==
    Logged(clientLog, [op |-> "request", attempt |-> attempt,
                       gap |-> since_request, answer |-> answer])

BackoffFlat(k) == _BASE_DELAY

\* lines 52 and 81
Backoff(k) == _BASE_DELAY * (k + 1)

\* lines 41-49 and 66-78: the attempt succeeds
AttemptReturns ==
    /\ cpc = "attempt" /\ attempt < _MAX_RETRIES
    /\ \E d \in Latencies, n \in ChunkCounts, r \in Replies(agent) :
        /\ Request(d)
        /\ full_text' = Chunks(attempt, n)
        /\ sink' = Handed(Chunks(attempt, n))
        /\ emit(StreamEvents(n))
        /\ response' = r
        /\ clientLog' = Logged(Requested("ok"), [op |-> "return", attempt |-> attempt])
    /\ cpc' = "returned"
    /\ UNCHANGED <<agent, stream_cb, attempt, error>>
    /\ UNCHANGED <<pipeVars, callback, unitVars, calls>>

\* lines 50-52 and 79-81: the exception's text names the rate limit
Throttled(d, n, answer) ==
    /\ elapsed' = Cap(elapsed + d + Backoff(attempt))
    /\ since_request' = Cap(d + Backoff(attempt))
    /\ called' = called
    /\ full_text' = Chunks(attempt, n)
    /\ sink' = Handed(Chunks(attempt, n))
    /\ emit(StreamEvents(n))
    /\ clientLog' = Logged(Requested(answer), [op |-> "sleep", secs |-> Backoff(attempt)])
    /\ attempt' = attempt + 1
    /\ UNCHANGED <<agent, stream_cb, cpc, response, error>>
    /\ UNCHANGED <<pipeVars, callback, unitVars, calls>>

AttemptThrottled ==
    /\ cpc = "attempt" /\ attempt < _MAX_RETRIES
    /\ \E d \in Latencies, n \in ChunkCounts : Throttled(d, n, "throttled")

RaisedAfterRetries(d, n, e) == Throttled(d, n, e)

\* lines 53-54 and 82-83: any other exception is raised again
Raised(d, n, e) ==
    /\ Request(d)
    /\ full_text' = Chunks(attempt, n)
    /\ sink' = Handed(Chunks(attempt, n))
    /\ emit(StreamEvents(n))
    /\ clientLog' = Logged(Requested(e), [op |-> "raise", error |-> e])
    /\ cpc' = "raised"
    /\ error' = e
    /\ UNCHANGED <<agent, stream_cb, attempt, response>>
    /\ UNCHANGED <<pipeVars, callback, unitVars, calls>>

AttemptFails ==
    /\ cpc = "attempt" /\ attempt < _MAX_RETRIES
    /\ \E d \in Latencies, n \in ChunkCounts : Raised(d, n, "fatal")

\* line 77: stream_cb itself raises on the chunk it is handed, inside the try
\* block; the except clause treats the observer's exception like one of the
\* service, by its text
StreamCbRaises ==
    /\ cpc = "attempt" /\ attempt < _MAX_RETRIES
    /\ stream_cb /\ callback = "faulty"
    /\ \E d \in Latencies, n \in 1..MaxChunks :
        \/ Raised(d, n, "observer")
        \/ Throttled(d, n, "observer429")

\* lines 55 and 84
RateLimitExceeded ==
    /\ cpc = "attempt" /\ attempt = _MAX_RETRIES
    /\ cpc' = "raised"
    /\ error' = "rate_limit"
    /\ clientLog' = Logged(clientLog, [op |-> "raise", error |-> "rate_limit"])
    /\ UNCHANGED <<agent, stream_cb, attempt, full_text, response, sink>>
    /\ UNCHANGED <<pipeVars, timeVars, callback, unitVars, events, calls>>

---------------------------------------------------------------------------
(* _extract_json. A text is a sequence of tokens: the fence (three back    *)
(* quotes), the tag                                                        *)
(* json, white space, the two braces, prose (x: no brace, no fence, no     *)
(* white space), the members of an object as they stand between its outer  *)
(* braces (no fence inside), and `deep`: a member whose value is nested     *)
(* deeper than the interpreter lets json.loads recurse.                     *)

Tok(k) == [tok |-> k]

Members(obj) == [tok |-> "members", obj |-> obj]

EmptyObject == [k \in {} |-> None]

RaisedError(e) == [raises |-> e]

RECURSIVE SkipWs(_, _)
\* \s*
SkipWs(t, i) == IF i <= Len(t) /\ t[i].tok = " " THEN SkipWs(t, i + 1) ELSE i

Min(S) == CHOOSE m \in S : \A n \in S : m <= n

Max(S) == CHOOSE m \in S : \A n \in S : m >= n

NotWs(token) == token.tok # " "

\* json.loads on a text that starts with { and ends with }: the object, or
\* the exception raised
json_loads(t) ==
    LET w == SelectSeq(t, NotWs)
    IN  IF Len(w) >= 2 /\ w[2].tok = "deep" THEN RaisedError("RecursionError")
        ELSE IF Len(w) = 2 THEN EmptyObject
        ELSE IF Len(w) = 3 /\ w[2].tok = "members" THEN w[2].obj
        ELSE RaisedError("JSONDecodeError")

\* the opening of the first pattern, fence (?:json)?\s*\{, matched from
\* position i on: where the brace is, or 0
OpenAt(t, i) ==
    LET j == IF i + 1 <= Len(t) /\ t[i + 1].tok = "json" THEN i + 2 ELSE i + 1
        a == SkipWs(t, j)
    IN  IF t[i].tok = "fence" /\ a <= Len(t) /\ t[a].tok = "{" THEN a ELSE 0

\* the closing of the first pattern, \}\s* fence, matched from position b on
CloseAt(t, b) ==
    /\ t[b].tok = "}"
    /\ LET c == SkipWs(t, b + 1) IN c <= Len(t) /\ t[c].tok = "fence"

Closers(t, a) == {b \in (a + 1)..Len(t) : CloseAt(t, b)}

\* line 89, re.search of the fenced pattern, (\{.*?\}) between the opening
\* and the closing: group 1 of the leftmost match, the shortest from there,
\* or <<>> when nothing matches
FencedGroup(t) ==
    LET starts == {i \in 1..Len(t) : OpenAt(t, i) > 0 /\ Closers(t, OpenAt(t, i)) # {}}
    IN  IF starts = {} THEN <<>>
        ELSE LET a == OpenAt(t, Min(starts))
             IN  SubSeq(t, a, Min(Closers(t, a)))

Braces(t, k) == {i \in 1..Len(t) : t[i].tok = k}

\* line 95, re.search(r"\{.*\}"): from the first { to the last } after it
BraceGroup(t) ==
    LET opens == Braces(t, "{")
        closes == {b \in Braces(t, "}") : opens # {} /\ b > Min(opens)}
    IN  IF closes = {} THEN <<>> ELSE SubSeq(t, Min(opens), Max(closes))

\* lines 91-94 and 97-100: json.JSONDecodeError is passed over, any other
\* exception leaves _extract_json
Caught(r) == r = RaisedError("JSONDecodeError")

Sentinel(t) == [raw_response |-> t]

_extract_json(t) ==
    LET first == IF FencedGroup(t) # <<>> THEN json_loads(FencedGroup(t))
                 ELSE RaisedError("JSONDecodeError")
        second == IF BraceGroup(t) # <<>> THEN json_loads(BraceGroup(t))
                  ELSE RaisedError("JSONDecodeError")
    IN  IF ~Caught(first) THEN first
        ELSE IF ~Caught(second) THEN second
        ELSE Sentinel(t)

Get(d, k, default) == IF k \in DOMAIN d THEN d[k] ELSE default

Put(d, k, v) == (k :> v) @@ d

---------------------------------------------------------------------------
(* source_scorer.py. A host is the sequence of its labels; a URL is known   *)
(* by what urlparse makes of it: `absolute` has a network location, whose  *)
(* host may be empty, `no_netloc` has none (no //), on `invalid` urlparse   *)
(* raises ValueError. A date string is known by the format it is written   *)
(* in and by its age, now - pub_date, in hours.                            *)

TIER_1 ==
    {<<"reuters", "com">>, <<"apnews", "com">>, <<"bbc", "com">>,
     <<"bbc", "co", "uk">>, <<"nature", "com">>, <<"sciencedirect", "com">>,
     <<"who", "int">>, <<"un", "org">>, <<"nih", "gov">>, <<"cdc", "gov">>,
     <<"nasa", "gov">>, <<"pubmed", "ncbi", "nlm", "nih", "gov">>,
     <<"nejm", "org">>, <<"thelancet", "com">>, <<"science", "org">>}

TIER_2 ==
    {<<"nytimes", "com">>, <<"washingtonpost", "com">>,
     <<"theguardian", "com">>, <<"economist", "com">>, <<"ft", "com">>,
     <<"bloomberg", "com">>, <<"cnbc", "com">>, <<"wikipedia", "org">>,
     <<"en", "wikipedia", "org">>, <<"britannica", "com">>, <<"pbs", "org">>,
     <<"npr", "org">>, <<"aljazeera", "com">>, <<"thehindu", "com">>,
     <<"ndtv", "com">>, <<"livemint", "com">>, <<"techcrunch", "com">>,
     <<"arstechnica", "com">>, <<"wired", "com">>, <<"snopes", "com">>,
     <<"factcheck", "org">>, <<"politifact", "com">>}

TIER_3 ==
    {<<"medium", "com">>, <<"substack", "com">>, <<"wordpress", "com">>,
     <<"forbes", "com">>, <<"businessinsider", "com">>,
     <<"huffpost", "com">>, <<"indiatimes", "com">>,
     <<"timesofindia", "indiatimes", "com">>}

GOV_EDU_TLDS == {<<"gov">>, <<"edu">>, <<"ac", "uk">>, <<"gov", "in">>, <<"nic", "in">>}

Url(form, host) == [form |-> form, host |-> host]

\* the url "" (run_skeptic's default for an evidence without source_url)
EmptyUrl == Url("no_netloc", <<>>)

\* str.lower, on the labels of the model
Lower(label) ==
    CASE label = "WWW" -> "www"
      [] label = "REUTERS" -> "reuters"
      [] label = "COM" -> "com"
      [] label = "Example" -> "example"
      [] OTHER -> label

\* urlparse(url).hostname or "", inside the try
Hostname(u) == IF u.form = "absolute" THEN u.host ELSE <<>>

_get_domainCaseKept(u) ==
    LET host == Hostname(u)
    IN  IF Len(host) >= 2 /\ host[1] = "www" THEN Tail(host) ELSE host

_get_domain(u) ==
    LET host == [i \in 1..Len(Hostname(u)) |-> Lower(Hostname(u)[i])]
    IN  IF Len(host) >= 2 /\ host[1] = "www" THEN Tail(host) ELSE host

\* domain.endswith("." + suffix)
EndsWith(domain, suffix) ==
    /\ Len(domain) > Len(suffix)
    /\ SubSeq(domain, Len(domain) - Len(suffix) + 1, Len(domain)) = suffix

_domain_scoreSubdomainsAlike(domain) ==
    IF domain \in TIER_1 THEN 10
    ELSE IF domain \in TIER_2 THEN 7
    ELSE IF domain \in TIER_3 THEN 4
    ELSE IF \E tld \in GOV_EDU_TLDS : EndsWith(domain, tld) THEN 9
    ELSE IF \E t \in TIER_1 \cup TIER_2 : EndsWith(domain, t) THEN 7
    ELSE 2

_domain_score(domain) ==
    IF domain \in TIER_1 THEN 10
    ELSE IF domain \in TIER_2 THEN 7
    ELSE IF domain \in TIER_3 THEN 4
    ELSE IF \E tld \in GOV_EDU_TLDS : EndsWith(domain, tld) THEN 9
    ELSE IF \E t1 \in TIER_1 : EndsWith(domain, t1) THEN 9
    ELSE IF \E t2 \in TIER_2 : EndsWith(domain, t2) THEN 7
    ELSE 2

\* timedelta(days=n), in hours
Days(n) == n * 24

\* the formats strptime is tried with, line 72
DateFormats == {"%Y-%m-%d", "%B %d, %Y", "%d %B %Y", "%Y-%m-%dT%H:%M:%S"}

Date(fmt, age) == [fmt |-> fmt, age |-> age]

\* the date string ""
NoDate == Date("", 0)

_recency_modifierReversed(d) ==
    IF d.fmt = "" THEN 0
    ELSE IF d.fmt \notin DateFormats THEN 0
    ELSE IF d.age < Days(180) THEN -1
    ELSE IF d.age > Days(730) THEN 1
    ELSE 0

_recency_modifier(d) ==
    IF d.fmt = "" THEN 0
    ELSE IF d.fmt \notin DateFormats THEN 0
    ELSE IF d.age < Days(180) THEN 1
    ELSE IF d.age > Days(730) THEN -1
    ELSE 0

Tier(base) ==
    IF base >= 9 THEN "Tier 1 - Highly Credible"
    ELSE IF base >= 6 THEN "Tier 2 - Credible"
    ELSE IF base >= 3 THEN "Tier 3 - Low Credibility"
    ELSE "Tier 4 - Unreliable/Unknown"

score_sourceTierOfFinal(u, d) ==
    LET base == _domain_score(_get_domain(u))
        recency == _recency_modifier(d)
        final == Max({0, Min({10, base + recency})})
    IN  [domain |-> _get_domain(u), score |-> final,
         tier |-> Tier(final), recency_modifier |-> recency]

score_sourceUnclamped(u, d) ==
    LET base == _domain_score(_get_domain(u))
        recency == _recency_modifier(d)
    IN  [domain |-> _get_domain(u), score |-> base + recency,
         tier |-> Tier(base), recency_modifier |-> recency]

score_source(u, d) ==
    LET base == _domain_score(_get_domain(u))
        recency == _recency_modifier(d)
        final == Max({0, Min({10, base + recency})})
    IN  [domain |-> _get_domain(u), score |-> final,
         tier |-> Tier(base), recency_modifier |-> recency]

---------------------------------------------------------------------------
(* The stage functions up to their call of the generation client, and from  *)
(* its return on                                                            *)

\* history: one entry per call of a stage function
Invocation(stage, c, input) ==
    [stage |-> stage, claim |-> c, input |-> input, returned |-> FALSE,
     output |-> None, retries_used |-> 0]

\* history: the latest stage function returned `out`
StageReturned(out) ==
    [i \in 1..Len(invoked) |->
        IF i = Len(invoked)
        THEN [invoked[i] EXCEPT !.returned = TRUE, !.output = out, !.retries_used = retries]
        ELSE invoked[i]]

ResearcherLogs == [i \in 1..3 |-> Ev("researcher", "log")]

\* run_researcher, from the reply on: the parsed record, with sub_claims
\* defaulted; `id` tags the record with the invocation that produced it
ResearcherResult(c) ==
    LET result == _extract_json(response)
        tagged == Put(result, "id", Len(invoked))
    IN  IF "sub_claims" \in DOMAIN result THEN tagged
        ELSE Put(tagged, "sub_claims", <<c>>)

\* run_skeptic scores every evidence item of its argument in place
ScoredEvidence(ev) ==
    LET sc == score_source(Get(ev, "source_url", EmptyUrl), NoDate)
    IN  Put(Put(Put(ev, "credibility_score", sc.score),
                "credibility_tier", sc.tier), "domain", sc.domain)

ScoredFinding(f) ==
    IF "evidence" \in DOMAIN f
    THEN [f EXCEPT !.evidence = [i \in 1..Len(f.evidence) |-> ScoredEvidence(f.evidence[i])]]
    ELSE f

ScoredOnCopy(research) == research

Scored(research) ==
    IF "findings" \in DOMAIN research
    THEN [research EXCEPT !.findings =
             [i \in 1..Len(research.findings) |-> ScoredFinding(research.findings[i])]]
    ELSE research

RECURSIVE SumLen(_, _)
SumLen(fs, k) ==
    IF fs = <<>> THEN 0 ELSE Len(Get(Head(fs), k, <<>>)) + SumLen(Tail(fs), k)

SkepticLogsMisattributed(research) ==
    [i \in 1..(SumLen(Get(research, "findings", <<>>), "evidence") + 1) |-> Ev("researcher", "log")]

\* one log per scored evidence item, and "Analyzing source quality..."
SkepticLogs(research) ==
    [i \in 1..(SumLen(Get(research, "findings", <<>>), "evidence") + 1) |-> Ev("skeptic", "log")]

---------------------------------------------------------------------------
(* run_pipeline *)

Running == outcome = "running"

\* the reply is one _extract_json returns on
Parses == _extract_json(response) \notin {RaisedError("RecursionError")}

\* the frame of the client call is gone, by return or by exception
FrameGone ==
    /\ cpc' = "idle" /\ attempt' = 0 /\ full_text' = <<>> /\ sink' = <<>>
    /\ clientLog' = <<>>
    /\ UNCHANGED <<agent, stream_cb, response>>

\* the observer raises on one of the events `evs`; the stage function is
\* entered after the first `before` of them. emit catches nothing, nor does
\* run_pipeline
ObserverRaises(evs, before, entry, inv) ==
    /\ callback = "faulty"
    /\ \E k \in 1..Len(evs) :
        /\ events' = Received(events, SubSeq(evs, 1, k))
        /\ invoked' = IF k > before THEN Append(inv, entry) ELSE inv
    /\ outcome' = "raised"
    /\ error' = "observer"
    /\ pc' = "aborted"
    /\ FrameGone
    /\ UNCHANGED <<claim, max_researcher_retries, results, retries,
                   current_research, skeptic_out, audited, report>>
    /\ UNCHANGED <<timeVars, callback, unitVars, calls>>

\* lines 31-34, and run_researcher up to its call of the client
ResearcherStart ==
    /\ Running /\ pc = "start"
    /\ LET evs == <<Ev("researcher", "start")>> \o ResearcherLogs
           entry == Invocation("researcher", claim, 0)
       IN  \/ /\ emit(evs)
              /\ invoked' = Append(invoked, entry)
              /\ pc' = "researcher"
              /\ EnterCall("researcher", TRUE)
              /\ UNCHANGED <<claim, max_researcher_retries, results, retries,
                             current_research, skeptic_out, audited, outcome, report>>
              /\ UNCHANGED <<timeVars, callback, unitVars, calls>>
           \/ ObserverRaises(evs, 1, entry, invoked)

AfterResearchOnce(r) == IF r = 0 THEN "audit" ELSE "break"

AfterResearchSkipsAudit(r) == "break"

\* line 52, the loop test, made after each research
AfterResearch(r) == IF r <= max_researcher_retries THEN "audit" ELSE "break"

\* run_researcher from the reply on, and lines 35-50
ResearcherReturns ==
    /\ Running /\ pc = "researcher" /\ cpc = "returned" /\ Parses
    /\ LET evs == <<Ev("researcher", "done"), Ev("researcher", "handover")>>
           researcher_out == ResearcherResult(claim)
       IN  \/ /\ emit(evs)
              /\ invoked' = StageReturned(None)
              /\ results' = Put(results, "researcher", researcher_out)
              /\ retries' = 0
              /\ skeptic_out' = None
              /\ current_research' = researcher_out
              /\ pc' = AfterResearch(0)
              /\ LeaveCall
              /\ UNCHANGED <<claim, max_researcher_retries, audited, outcome, report>>
              /\ UNCHANGED <<timeVars, callback, unitVars, calls>>
           \/ ObserverRaises(evs, 2, None, StageReturned(None))

\* lines 53-55, and run_skeptic up to its call of the client; current_research
\* and results["researcher"] are one object, scored in place
SkepticStart ==
    /\ Running /\ pc = "audit"
    /\ LET evs == <<Ev("skeptic", "start")>> \o SkepticLogs(current_research)
           entry == Invocation("skeptic", <<>>, current_research.id)
       IN  \/ /\ emit(evs)
              /\ invoked' = Append(invoked, entry)
              /\ current_research' = Scored(current_research)
              /\ results' = Put(results, "researcher", Scored(current_research))
              /\ pc' = "skeptic"
              /\ EnterCall("skeptic", TRUE)
              /\ UNCHANGED <<claim, max_researcher_retries, retries,
                             skeptic_out, audited, outcome, report>>
              /\ UNCHANGED <<timeVars, callback, unitVars, calls>>
           \/ ObserverRaises(evs, 1, entry, invoked)

\* lines 57-62
NeedsRetry(findings) ==
    \E i \in 1..Len(findings) : Get(findings[i], "needs_more_research", FALSE)

LoopBreakOnFlagOnly(findings) == ~NeedsRetry(findings)

LoopBreakLate(findings) == ~NeedsRetry(findings) \/ retries > max_researcher_retries

\* line 64
LoopBreak(findings) == ~NeedsRetry(findings) \/ retries >= max_researcher_retries

\* run_skeptic from the reply on, and lines 57-65
SkepticReturns ==
    /\ Running /\ pc = "skeptic" /\ cpc = "returned" /\ Parses
    /\ skeptic_out' = _extract_json(response)
    /\ audited' = Get(skeptic_out', "audited_findings", <<>>)
    /\ pc' = IF LoopBreak(audited') THEN "break" ELSE "retry"
    /\ invoked' = StageReturned(skeptic_out')
    /\ LeaveCall
    /\ UNCHANGED <<claim, max_researcher_retries, results, retries,
                   current_research, outcome, report>>
    /\ UNCHANGED <<timeVars, callback, unitVars, events, calls>>

RecordRetriesForgotten(res, r) == res

\* line 68
RecordRetries(res, r) == Put(res, "retries", r)

\* lines 67-71
SkepticHandsBack ==
    /\ Running /\ pc = "retry"
    /\ LET evs == <<Ev("skeptic", "done"), Ev("skeptic", "handover")>>
       IN  \/ /\ emit(evs)
              /\ retries' = retries + 1
              /\ results' = RecordRetries(results, retries + 1)
              /\ pc' = "re_research"
              /\ UNCHANGED <<claim, max_researcher_retries, current_research,
                             skeptic_out, audited, outcome, report, invoked>>
              /\ UNCHANGED <<callVars, timeVars, callback, unitVars, calls>>
           \/ ObserverRaises(evs, 2, None, invoked)

RECURSIVE Suggestions(_)
\* lines 75-79
Suggestions(findings) ==
    IF findings = <<>> THEN <<>>
    ELSE LET s == Get(Head(findings), "research_suggestions", "")
         IN  (IF s # "" THEN <<s>> ELSE <<>>) \o Suggestions(Tail(findings))

Refined(c, findings) ==
    IF Suggestions(findings) # <<>>
    THEN c \o <<". Focus on: ">> \o Suggestions(findings)
    ELSE c

RefinedFromWorkingClaim(c, findings) ==
    Refined(invoked[Len(invoked) - 1].claim, findings)

\* line 80; a claim is the sequence of the pieces it is concatenated from
RefinedClaim(c, findings) == Refined(c, findings)

\* lines 73-81, and run_researcher up to its call of the client
ReResearch ==
    /\ Running /\ pc = "re_research"
    /\ LET evs == <<Ev("researcher", "start")>> \o ResearcherLogs
           refined_claim == RefinedClaim(claim, audited)
           entry == Invocation("researcher", refined_claim, 0)
       IN  \/ /\ emit(evs)
              /\ invoked' = Append(invoked, entry)
              /\ pc' = "re_researcher"
              /\ EnterCall("researcher", TRUE)
              /\ UNCHANGED <<claim, max_researcher_retries, results, retries,
                             current_research, skeptic_out, audited, outcome, report>>
              /\ UNCHANGED <<timeVars, callback, unitVars, calls>>
           \/ ObserverRaises(evs, 1, entry, invoked)

\* run_researcher from the reply on, lines 81-83 and the loop test
ReResearchReturns ==
    /\ Running /\ pc = "re_researcher" /\ cpc = "returned" /\ Parses
    /\ LET evs == <<Ev("researcher", "done")>>
           result == ResearcherResult(invoked[Len(invoked)].claim)
       IN  \/ /\ emit(evs)
              /\ invoked' = StageReturned(None)
              /\ current_research' = result
              /\ results' = Put(results, "researcher", result)
              /\ pc' = AfterResearch(retries)
              /\ LeaveCall
              /\ UNCHANGED <<claim, max_researcher_retries, retries, skeptic_out,
                             audited, outcome, report>>
              /\ UNCHANGED <<timeVars, callback, unitVars, calls>>
           \/ ObserverRaises(evs, 1, None, StageReturned(None))

\* lines 85-92
SkepticDone ==
    /\ Running /\ pc = "break"
    /\ LET evs == <<Ev("skeptic", "done"), Ev("skeptic", "handover")>>
       IN  \/ /\ emit(evs)
              /\ results' = Put(results, "skeptic", skeptic_out)
              /\ pc' = "challenge"
              /\ UNCHANGED <<claim, max_researcher_retries, retries, current_research,
                             skeptic_out, audited, outcome, report, invoked>>
              /\ UNCHANGED <<callVars, timeVars, callback, unitVars, calls>>
           \/ ObserverRaises(evs, 2, None, invoked)

\* lines 95-97, and run_adversary up to its call of the client
AdversaryStart ==
    /\ Running /\ pc = "challenge"
    /\ LET evs == <<Ev("adversary", "start"), Ev("adversary", "log")>>
           entry == Invocation("adversary", claim, 0)
       IN  \/ /\ emit(evs)
              /\ invoked' = Append(invoked, entry)
              /\ pc' = "adversary"
              /\ EnterCall("adversary", TRUE)
              /\ UNCHANGED <<claim, max_researcher_retries, results, retries,
                             current_research, skeptic_out, audited, outcome, report>>
              /\ UNCHANGED <<timeVars, callback, unitVars, calls>>
           \/ ObserverRaises(evs, 1, entry, invoked)

\* run_adversary from the reply on, and lines 98-105
AdversaryReturns ==
    /\ Running /\ pc = "adversary" /\ cpc = "returned" /\ Parses
    /\ LET evs == <<Ev("adversary", "done"), Ev("adversary", "handover")>>
           adversary_out == _extract_json(response)
       IN  \/ /\ emit(evs)
              /\ results' = Put(results, "adversary", adversary_out)
              /\ invoked' = StageReturned(None)
              /\ pc' = "adjudicate"
              /\ LeaveCall
              /\ UNCHANGED <<claim, max_researcher_retries, retries, current_research,
                             skeptic_out, audited, outcome, report>>
              /\ UNCHANGED <<timeVars, callback, unitVars, calls>>
           \/ ObserverRaises(evs, 2, None, StageReturned(None))

\* lines 108-110, and run_judge up to its call of the client
JudgeStart ==
    /\ Running /\ pc = "adjudicate"
    /\ LET evs == <<Ev("judge", "start"), Ev("judge", "log")>>
           entry == Invocation("judge", claim, 0)
       IN  \/ /\ emit(evs)
              /\ invoked' = Append(invoked, entry)
              /\ pc' = "judge"
              /\ EnterCall("judge", TRUE)
              /\ UNCHANGED <<claim, max_researcher_retries, results, retries,
                             current_research, skeptic_out, audited, outcome, report>>
              /\ UNCHANGED <<timeVars, callback, unitVars, calls>>
           \/ ObserverRaises(evs, 1, entry, invoked)

\* run_judge from the reply on, and lines 111-114
JudgeReturns ==
    /\ Running /\ pc = "judge" /\ cpc = "returned" /\ Parses
    /\ LET evs == <<Ev("judge", "done")>>
           judge_out == _extract_json(response)
       IN  \/ /\ emit(evs)
              /\ results' = Put(results, "judge", judge_out)
              /\ report' = results'
              /\ outcome' = "returned"
              /\ invoked' = StageReturned(None)
              /\ pc' = "done"
              /\ LeaveCall
              /\ UNCHANGED <<claim, max_researcher_retries, retries, current_research,
                             skeptic_out, audited>>
              /\ UNCHANGED <<timeVars, callback, unitVars, calls>>
           \/ ObserverRaises(evs, 1, None, StageReturned(None))

\* _extract_json raises on the reply: the exception leaves the stage
\* function (lines 159, 218, 255, 298 of agents.py) and run_pipeline
StageRaises ==
    /\ Running /\ pc \in {"researcher", "re_researcher", "skeptic", "adversary", "judge"}
    /\ cpc = "returned" /\ ~Parses
    /\ outcome' = "raised"
    /\ error' = _extract_json(response).raises
    /\ pc' = "aborted"
    /\ FrameGone
    /\ UNCHANGED <<claim, max_researcher_retries, results, retries,
                   current_research, skeptic_out, audited, report, invoked>>
    /\ UNCHANGED <<timeVars, callback, unitVars, events, calls>>

PipelineReturnsPartial ==
    /\ Running /\ pc # "caller" /\ cpc = "raised"
    /\ outcome' = "returned"
    /\ report' = results
    /\ pc' = "done"
    /\ FrameGone
    /\ UNCHANGED <<claim, max_researcher_retries, results, retries,
                   current_research, skeptic_out, audited, invoked>>
    /\ UNCHANGED <<error, timeVars, callback, unitVars, events, calls>>

\* an exception of the client leaves the stage function and run_pipeline,
\* neither of which catches anything: the caller gets the exception and
\* nothing of results
PipelineRaises ==
    /\ Running /\ pc # "caller" /\ cpc = "raised"
    /\ outcome' = "raised"
    /\ pc' = "aborted"
    /\ FrameGone
    /\ UNCHANGED <<claim, max_researcher_retries, results, retries,
                   current_research, skeptic_out, audited, report, invoked>>
    /\ UNCHANGED <<error, timeVars, callback, unitVars, events, calls>>

---------------------------------------------------------------------------
(* A caller using the client directly *)

ClientCall ==
    /\ pc = "caller"
    /\ cpc \in {"idle", "returned", "raised"}
    /\ calls < MaxCalls
    /\ calls' = calls + 1
    /\ \E scb \in BOOLEAN : EnterCall("caller", scb)
    /\ UNCHANGED <<pipeVars, timeVars, callback, unitVars, events>>

CallActions ==
    \/ _pace
    \/ AttemptReturns
    \/ AttemptThrottled
    \/ AttemptFails
    \/ StreamCbRaises
    \/ RateLimitExceeded

InitCall ==
    /\ agent = "none" /\ stream_cb = FALSE /\ cpc = "idle" /\ attempt = 0
    /\ full_text = <<>> /\ response = None /\ error = "none"
    /\ sink = <<>> /\ clientLog = <<>> /\ calls = 0
    /\ called = FALSE /\ elapsed = 0 /\ since_request = -1
    /\ events = <<>>
    /\ threads = {} /\ tpc = <<>> /\ remaining = <<>>
    /\ acquired = None
    /\ text = <<>> /\ parsed = None
    /\ url = None /\ scored = <<>>

InitClient ==
    /\ InitCall
    /\ pc = "caller"
    /\ callback \in {"ok", "faulty"}
    /\ claim = <<>> /\ max_researcher_retries = MAX_RESEARCHER_RETRIES
    /\ results = None /\ retries = 0 /\ current_research = None
    /\ skeptic_out = None /\ audited = <<>>
    /\ outcome = "running" /\ report = None /\ invoked = <<>>

NextClient == ClientCall \/ CallActions

SpecClient == InitClient /\ [][NextClient]_vars

---------------------------------------------------------------------------
(* _pace, statement by statement, in each of the threads that share       *)
(* _last_call_time. A thread reads the clock and _last_call_time and makes *)
(* the test (lines 28-30), sleeps (line 31), writes (line 32). tpc[t]      *)
(* holds where thread t is and the locals it has computed.                 *)

Idle == [at |-> "idle", called |-> FALSE, elapsed |-> 0, wait |-> 0]

\* lines 28-30: now, elapsed, the test, and the call of time.sleep
PaceRead(t) ==
    /\ tpc[t].at = "idle"
    /\ tpc' = [tpc EXCEPT ![t] = [at |-> "line31", called |-> called,
                                  elapsed |-> elapsed, wait |-> PaceWait]]
    /\ remaining' = [remaining EXCEPT ![t] = PaceWait]
    /\ UNCHANGED <<threads, acquired>>
    /\ UNCHANGED <<pipeVars, callVars, timeVars, callback, events, calls,
                   parserVars, scorerVars>>

\* line 32, once the sleep (if any) is over: the timestamp is recorded and
\* _pace returns
PaceWrite(t) ==
    /\ tpc[t].at = "line31" /\ remaining[t] = 0
    /\ acquired' = [first |-> ~tpc[t].called,
                    idle |-> tpc[t].elapsed,
                    waited |-> tpc[t].wait,
                    stamp_gap |-> IF called THEN elapsed ELSE -1]
    /\ called' = TRUE
    /\ elapsed' = 0
    /\ tpc' = [tpc EXCEPT ![t] = Idle]
    /\ UNCHANGED <<threads, remaining, since_request>>
    /\ UNCHANGED <<pipeVars, callVars, callback, events, calls,
                   parserVars, scorerVars>>

\* one second passes, for the clock and for every sleeping thread
Tick ==
    /\ elapsed' = IF called THEN Cap(elapsed + 1) ELSE elapsed
    /\ remaining' = [t \in threads |-> IF remaining[t] > 0 THEN remaining[t] - 1 ELSE 0]
    /\ UNCHANGED <<threads, tpc, acquired, called, since_request>>
    /\ UNCHANGED <<pipeVars, callVars, callback, events, calls,
                   parserVars, scorerVars>>

InitIdle ==
    /\ agent = "none" /\ stream_cb = FALSE /\ cpc = "idle" /\ attempt = 0
    /\ full_text = <<>> /\ response = None /\ error = "none"
    /\ sink = <<>> /\ clientLog = <<>> /\ calls = 0
    /\ events = <<>> /\ callback = "none"
    /\ claim = <<>> /\ max_researcher_retries = MAX_RESEARCHER_RETRIES
    /\ results = None /\ retries = 0 /\ current_research = None
    /\ skeptic_out = None /\ audited = <<>>
    /\ outcome = "running" /\ report = None /\ invoked = <<>>

\* the pacer of a fresh process, used by the threads `ts`
InitPacerOf(ts) ==
    /\ InitIdle
    /\ pc = "pacer"
    /\ called = FALSE /\ elapsed = 0 /\ since_request = -1
    /\ threads = ts
    /\ tpc = [t \in threads |-> Idle]
    /\ remaining = [t \in threads |-> 0]
    /\ acquired = None
    /\ text = <<>> /\ parsed = None
    /\ url = None /\ scored = <<>>

NextPacer ==
    \/ \E t \in threads : PaceRead(t)
    \/ \E t \in threads : PaceWrite(t)
    \/ Tick

\* one thread, as when a single pipeline runs
InitPacer == InitPacerOf({1})

SpecPacer == InitPacer /\ [][NextPacer]_vars

\* concurrent pipeline runs of one process
InitPacerShared == InitPacerOf(1..MaxThreads)

SpecPacerShared == InitPacerShared /\ [][NextPacer]_vars

---------------------------------------------------------------------------
(* _extract_json called on its own, on every text of up to MaxText tokens  *)

Tokens ==
    {Tok(k) : k \in {"fence", "json", " ", "{", "}", "x", "deep"}}
        \cup {Members([answer |-> "a"])}

Texts == UNION {[1..n -> Tokens] : n \in 0..MaxText}

ExtractJson ==
    /\ pc = "parser" /\ parsed = None
    /\ parsed' = _extract_json(text)
    /\ UNCHANGED text
    /\ UNCHANGED <<pipeVars, callVars, timeVars, callback, events, calls,
                   pacerVars, scorerVars>>

InitParser ==
    /\ InitIdle
    /\ pc = "parser"
    /\ called = FALSE /\ elapsed = 0 /\ since_request = -1
    /\ threads = {} /\ tpc = <<>> /\ remaining = <<>> /\ acquired = None
    /\ text \in Texts /\ parsed = None
    /\ url = None /\ scored = <<>>

NextParser == ExtractJson

SpecParser == InitParser /\ [][NextParser]_vars

---------------------------------------------------------------------------
(* score_source called on its own: one url, scored with several dates      *)

Listed == TIER_1 \cup TIER_2 \cup TIER_3

Hosts ==
    Listed \cup {<<"www">> \o h : h \in Listed} \cup {<<"sub">> \o h : h \in Listed}
        \cup {<<"example", "gov">>, <<"mit", "edu">>, <<"ox", "ac", "uk">>,
              <<"mospi", "gov", "in">>, <<"gov">>, <<"www">>,
              <<"randomblog", "example">>, <<"WWW", "REUTERS", "COM">>,
              <<"WWW", "Example", "COM">>, <<"example", "com">>, <<>>}

Urls ==
    {Url("absolute", h) : h \in Hosts}
        \cup {Url("no_netloc", h) : h \in {<<>>, <<"reuters", "com">>}}
        \cup {Url("invalid", <<"reuters", "com">>)}

\* ages around the two thresholds, and a date in the future
Ages == {-1, Days(180) - 1, Days(180), Days(730), Days(730) + 1}

\* no date; recent and old dates in each format and in a format strptime is
\* not tried with; the ages around the thresholds in the first format
Dates ==
    {NoDate}
        \cup {Date(f, a) : f \in DateFormats \cup {"%d/%m/%Y"}, a \in {Days(30), Days(1000)}}
        \cup {Date("%Y-%m-%d", a) : a \in Ages}

\* score_source(url, date_str), with its local `base` kept
ScoreSource ==
    /\ pc = "scorer" /\ Len(scored) < MaxScored
    /\ \E d \in Dates :
          scored' = Append(scored, [date_str |-> d,
                                    base |-> _domain_score(_get_domain(url)),
                                    result |-> score_source(url, d)])
    /\ UNCHANGED url
    /\ UNCHANGED <<pipeVars, callVars, timeVars, callback, events, calls,
                   pacerVars, parserVars>>

InitScorer ==
    /\ InitIdle
    /\ pc = "scorer"
    /\ called = FALSE /\ elapsed = 0 /\ since_request = -1
    /\ threads = {} /\ tpc = <<>> /\ remaining = <<>> /\ acquired = None
    /\ text = <<>> /\ parsed = None
    /\ url \in Urls /\ scored = <<>>

NextScorer == ScoreSource

SpecScorer == InitScorer /\ [][NextScorer]_vars

Claims == {<<"claim">>}

Init ==
    /\ InitCall
    /\ pc = "start"
    /\ claim \in Claims
    /\ callback \in {"none", "ok", "faulty"}
    /\ max_researcher_retries \in 0..MAX_RESEARCHER_RETRIES
    /\ results = [claim |-> claim, retries |-> 0]
    /\ retries = 0 /\ current_research = None
    /\ skeptic_out = None /\ audited = <<>>
    /\ outcome = "running" /\ report = None /\ invoked = <<>>

Next ==
    \/ ResearcherStart
    \/ ResearcherReturns
    \/ SkepticStart
    \/ SkepticReturns
    \/ SkepticHandsBack
    \/ ReResearch
    \/ ReResearchReturns
    \/ SkepticDone
    \/ AdversaryStart
    \/ AdversaryReturns
    \/ JudgeStart
    \/ JudgeReturns
    \/ PipelineRaises
    \/ StageRaises
    \/ CallActions

Spec == Init /\ [][Next]_vars

---------------------------------------------------------------------------
(* run_pipeline from the reply to its first audit call on, up to the call   *)
(* of the re-research, for audit replies of up to MaxAudited findings       *)

AuditReplies ==
    {Json([audited_findings |-> l]) :
        l \in UNION {[1..n -> FindingVariants] : n \in 0..MaxAudited}}

\* the research that the service answered in prose, as run_researcher
\* returns it
ProseResearch(c) == [raw_response |-> Prose, id |-> 1, sub_claims |-> <<c>>]

\* the state in which the first audit call has just returned
InitAudit ==
    /\ pc = "skeptic"
    /\ claim \in Claims
    /\ callback \in {"none", "ok", "faulty"}
    /\ max_researcher_retries \in 0..MAX_RESEARCHER_RETRIES
    /\ current_research = ProseResearch(claim)
    /\ results = [claim |-> claim, retries |-> 0, researcher |-> current_research]
    /\ retries = 0 /\ skeptic_out = None /\ audited = <<>>
    /\ outcome = "running" /\ report = None
    /\ invoked = <<[Invocation("researcher", claim, 0) EXCEPT !.returned = TRUE],
                   Invocation("skeptic", <<>>, 1)>>
    /\ events = IF callback = "none" THEN <<>>
                ELSE <<Ev("skeptic", "start")>> \o SkepticLogs(current_research)
    /\ agent = "skeptic" /\ stream_cb = TRUE /\ cpc = "returned" /\ attempt = 0
    /\ full_text = <<>> /\ response \in AuditReplies /\ error = "none"
    /\ sink = <<>> /\ clientLog = <<>> /\ calls = 0
    /\ called = TRUE /\ elapsed = 0 /\ since_request = 0
    /\ threads = {} /\ tpc = <<>> /\ remaining = <<>> /\ acquired = None
    /\ text = <<>> /\ parsed = None
    /\ url = None /\ scored = <<>>

NextAudit ==
    \/ SkepticReturns
    \/ SkepticHandsBack
    \/ ReResearch
    \/ SkepticDone

SpecAudit == InitAudit /\ [][NextAudit]_vars

---------------------------------------------------------------------------
(* Properties of run_pipeline *)

StageAt(i) == IF i \in 1..Len(invoked) THEN invoked[i].stage ELSE "nothing"

Researches == Cardinality({i \in 1..Len(invoked) : invoked[i].stage = "researcher"})

Flagged(out) ==
    /\ "audited_findings" \in DOMAIN out
    /\ \E i \in 1..Len(out.audited_findings) :
          out.audited_findings[i].needs_more_research = TRUE

\* C1: an audit that flags needs_more_research with fewer than the maximum
\* of retries used is followed by research and then by another audit, never
\* by challenge; an audit made with the maximum used is followed by
\* challenge whatever it flags; a returned run ends with adjudicate, so each
\* audit of it had its successors; with a maximum of 0 research runs once.
RetryGate ==
    /\ \A i \in 1..Len(invoked) :
          (invoked[i].stage = "skeptic" /\ invoked[i].returned) =>
              /\ (Flagged(invoked[i].output)
                    /\ invoked[i].retries_used < max_researcher_retries) =>
                      /\ StageAt(i + 1) \in {"researcher", "nothing"}
                      /\ StageAt(i + 2) \in {"skeptic", "nothing"}
              /\ invoked[i].retries_used = max_researcher_retries =>
                      StageAt(i + 1) \in {"adversary", "nothing"}
    /\ outcome = "returned" => StageAt(Len(invoked)) = "judge"
    /\ max_researcher_retries = 0 =>
          /\ Researches <= 1
          /\ outcome = "returned" => Researches = 1

RetryGateWitness ==
    /\ \E i \in 1..Len(invoked) :
          /\ invoked[i].stage = "skeptic" /\ Flagged(invoked[i].output)
          /\ invoked[i].retries_used < max_researcher_retries
          /\ StageAt(i + 1) = "researcher" /\ StageAt(i + 2) = "skeptic"
    /\ \E j \in 1..Len(invoked) :
          /\ invoked[j].stage = "skeptic" /\ Flagged(invoked[j].output)
          /\ invoked[j].retries_used = max_researcher_retries
          /\ StageAt(j + 1) = "adversary"

\* C2: the retry counter and results["retries"] stay within
\* 0..MAX_RESEARCHER_RETRIES, and the returned report's retries is the
\* number of research invocations minus one.
RetriesBounded ==
    /\ retries \in 0..max_researcher_retries
    /\ results.retries \in 0..max_researcher_retries
    /\ outcome = "returned" => report.retries = Researches - 1

RetriesBoundedWitness ==
    /\ outcome = "returned"
    /\ report.retries = MAX_RESEARCHER_RETRIES
    /\ Researches = MAX_RESEARCHER_RETRIES + 1

\* C3: the stages are invoked one after another, each after the one before
\* has returned, in the order research, audit, (research, audit)*, challenge,
\* adjudicate, with challenge and adjudicate once each in a returned run; the
\* input of each audit is the output of the research invoked just before it.
StagesInOrder ==
    /\ \A i \in 1..Len(invoked) :
          /\ i < Len(invoked) => invoked[i].returned
          /\ i = 1 => StageAt(i) = "researcher"
          /\ StageAt(i) = "researcher" => StageAt(i + 1) \in {"skeptic", "nothing"}
          /\ StageAt(i) = "skeptic" =>
                /\ StageAt(i + 1) \in {"researcher", "adversary", "nothing"}
                /\ StageAt(i - 1) = "researcher"
                /\ invoked[i].input = i - 1
          /\ StageAt(i) = "adversary" => StageAt(i + 1) \in {"judge", "nothing"}
          /\ StageAt(i) = "judge" => i = Len(invoked) /\ StageAt(i - 1) = "adversary"
    /\ current_research # None => StageAt(current_research.id) = "researcher"
    /\ outcome = "returned" =>
          /\ StageAt(Len(invoked)) = "judge"
          /\ invoked[Len(invoked)].returned

StagesInOrderWitness ==
    /\ outcome = "returned"
    /\ [i \in 1..Len(invoked) |-> invoked[i].stage] =
          <<"researcher", "skeptic", "researcher", "skeptic", "researcher", "skeptic",
            "adversary", "judge">>

AuditSuggestions(out) ==
    IF "audited_findings" \in DOMAIN out
    THEN {out.audited_findings[i].research_suggestions :
              i \in 1..Len(out.audited_findings)} \ {""}
    ELSE {}

BuiltFromOriginal(working, out) ==
    \/ working = claim
    \/ /\ Len(working) > Len(claim) + 1
       /\ SubSeq(working, 1, Len(claim)) = claim
       /\ working[Len(claim) + 1] = ". Focus on: "
       /\ \A k \in (Len(claim) + 2)..Len(working) : working[k] \in AuditSuggestions(out)

\* C4: challenge and adjudicate get the original claim, results["claim"] is
\* the original claim, and the working claim of every re-research is the
\* original claim, alone or followed by suggestions of the audit just before.
OriginalClaimKept ==
    /\ results.claim = claim
    /\ outcome = "returned" => report.claim = claim
    /\ \A i \in 1..Len(invoked) :
          /\ StageAt(i) \in {"adversary", "judge"} => invoked[i].claim = claim
          /\ (StageAt(i) = "researcher" /\ i = 1) => invoked[i].claim = claim
          /\ (StageAt(i) = "researcher" /\ i > 1) =>
                BuiltFromOriginal(invoked[i].claim, invoked[i - 1].output)

OriginalClaimKeptWitness ==
    /\ StageAt(Len(invoked)) = "judge"
    /\ Cardinality({i \in 2..Len(invoked) :
          StageAt(i) = "researcher" /\ invoked[i].claim # claim}) = 2

EventKinds(k) == {i \in 1..Len(events) : events[i].event = k}

Closed(a, handover) ==
    /\ events # <<>>
    /\ events[1].agent = a
    /\ Cardinality(EventKinds("done")) = 1
    /\ events[Len(events)].event = IF handover THEN "handover" ELSE "done"

ObserverErrorsHarmless ==
    outcome = "raised" => error \in {"fatal", "rate_limit"}

ReportFields == {"claim", "researcher", "skeptic", "adversary", "judge", "retries"}

\* C7: a run that meets an error returns no report, the error is the only
\* one and stays, and no stage is invoked after it; a report reaches the
\* caller from a run without error only, and whole.
AtomicRun ==
    /\ [](/\ report # None =>
                /\ outcome = "returned" /\ error = "none"
                /\ ReportFields \subseteq DOMAIN report
          /\ outcome = "raised" => error # "none"
          /\ (error # "none" /\ pc # "caller") =>
                /\ report = None
                /\ outcome = "raised" \/ cpc = "raised")
    /\ [][(error # "none" /\ pc # "caller") =>
              /\ invoked' = invoked
              /\ error' = error
              /\ report' = None]_vars

AtomicRunWitness ==
    /\ outcome = "raised" /\ error = "rate_limit"
    /\ Len(invoked) = 3 /\ StageAt(3) = "researcher"
    /\ "researcher" \in DOMAIN results /\ results.retries = 1
    /\ report = None

---------------------------------------------------------------------------
(* Properties of _call_gemini and _call_gemini_stream *)

Ops(o) == {i \in 1..Len(clientLog) : clientLog[i].op = o}

ThrottledAt(i) ==
    clientLog[i].op = "request" /\ clientLog[i].answer \in {"throttled", "observer429"}

\* C8: a throttled attempt k is followed by a sleep of _BASE_DELAY * (k+1)
\* and then, while attempts are left, by attempt k+1; a call makes at most
\* _MAX_RETRIES attempts; it ends with the rate limit error exactly when
\* _MAX_RETRIES attempts were made and all were throttled; a call that returns
\* returns the text of its last attempt, which succeeded, and makes no
\* attempt after it.
ThrottlePolicy ==
    /\ Cardinality(Ops("request")) <= _MAX_RETRIES
    /\ \A i \in Ops("request") :
          /\ clientLog[i].attempt = Cardinality({j \in Ops("request") : j < i})
          /\ ThrottledAt(i) =>
                /\ i < Len(clientLog)
                /\ clientLog[i + 1] =
                      [op |-> "sleep", secs |-> _BASE_DELAY * (clientLog[i].attempt + 1)]
                /\ i + 2 <= Len(clientLog) =>
                      IF clientLog[i].attempt + 1 < _MAX_RETRIES
                      THEN /\ clientLog[i + 2].op = "request"
                           /\ clientLog[i + 2].attempt = clientLog[i].attempt + 1
                      ELSE clientLog[i + 2] = [op |-> "raise", error |-> "rate_limit"]
          /\ clientLog[i].answer = "ok" =>
                /\ i + 1 = Len(clientLog)
                /\ clientLog[i + 1] = [op |-> "return", attempt |-> clientLog[i].attempt]
    /\ \A i \in Ops("sleep") : i > 1 /\ ThrottledAt(i - 1)
    /\ (cpc = "raised" /\ error = "rate_limit") <=>
          /\ cpc \in {"raised", "returned"}
          /\ Cardinality(Ops("request")) = _MAX_RETRIES
          /\ \A i \in Ops("request") : ThrottledAt(i)
    /\ cpc = "returned" =>
          /\ clientLog[Len(clientLog)] = [op |-> "return", attempt |-> attempt]
          /\ response \in Replies(agent)
          /\ \A k \in 1..Len(full_text) : full_text[k][1] = attempt

ThrottlePolicyWitness ==
    /\ cpc = "raised" /\ error = "rate_limit"
    /\ [i \in 1..Len(clientLog) |-> clientLog[i].op] =
          <<"pace", "request", "sleep", "request", "sleep", "request", "sleep", "raise">>

\* C9: an attempt the service answers with an error that is no throttling
\* is the last operation of the call but for the raise of that very error:
\* no sleep and no attempt follow, at whichever attempt.
FatalPropagates ==
    \A i \in Ops("request") :
        clientLog[i].answer = "fatal" =>
            /\ i + 1 = Len(clientLog)
            /\ clientLog[i + 1] = [op |-> "raise", error |-> "fatal"]
            /\ cpc = "raised" /\ error = "fatal"

FatalPropagatesWitness ==
    /\ cpc = "raised" /\ error = "fatal" /\ attempt = 2
    /\ Cardinality(Ops("sleep")) = 2

\* C10: every attempt of a call comes right after an acquire of the pacer,
\* and no request leaves less than _PACE_DELAY after the request before it.
PacedBeforeEveryAttempt ==
    \A i \in Ops("request") :
        /\ i > 1 /\ clientLog[i - 1].op = "pace"
        /\ clientLog[i].gap < 0 \/ clientLog[i].gap >= _PACE_DELAY

\* C13: a call with a sink returns the concatenation, in the order of
\* delivery, of exactly the chunks the sink was handed during the call,
\* retried attempts included.
ReturnsWhatSinkGot ==
    (pc = "caller" /\ stream_cb /\ cpc = "returned") => full_text = sink

\* C15: no reply of the generation service aborts the run: a run is left by
\* an error of the service or of the observer only, never by a reply that
\* does not parse; a research reply without sub_claims gives sub_claims =
\* [working claim]; an audit reply without audited_findings asks for no
\* retry; a returned report has its six fields.
ParseFailureTolerated ==
    /\ outcome = "raised" => error \in {"fatal", "rate_limit", "observer"}
    /\ (current_research # None /\ "raw_response" \in DOMAIN current_research) =>
          current_research.sub_claims = <<invoked[current_research.id].claim>>
    /\ \A i \in 1..Len(invoked) :
          (invoked[i].stage = "skeptic" /\ invoked[i].returned
              /\ "audited_findings" \notin DOMAIN invoked[i].output) =>
                  StageAt(i + 1) \in {"adversary", "nothing"}
    /\ outcome = "returned" => ReportFields \subseteq DOMAIN report

Verdicts == {"TRUE", "MOSTLY TRUE", "PARTIALLY TRUE", "MOSTLY FALSE", "FALSE"}

\* C19: in a returned report the judge's overall_confidence and the
\* confidence of every sub-verdict are within 0..100, and overall_verdict
\* and every sub-verdict's verdict are among the five verdicts.
VerdictInRange ==
    outcome = "returned" =>
        LET judge == report.judge
            subs == Get(judge, "sub_verdicts", <<>>)
        IN  /\ "overall_confidence" \in DOMAIN judge =>
                  judge.overall_confidence \in 0..100
            /\ "overall_verdict" \in DOMAIN judge => judge.overall_verdict \in Verdicts
            /\ \A i \in 1..Len(subs) :
                  /\ subs[i].confidence \in 0..100
                  /\ subs[i].verdict \in Verdicts

ChallengeInvoked == \E i \in 1..Len(invoked) : invoked[i].stage = "adversary"

\* C20: once challenge is invoked, every evidence item of every finding of
\* results["researcher"], the latest research output, carries the
\* credibility_score, credibility_tier and domain score_source gives for its
\* source_url, however many times research was repeated.
EvidenceScored ==
    ChallengeInvoked =>
        LET findings == Get(results.researcher, "findings", <<>>)
        IN  /\ results.researcher = current_research
            /\ results.researcher.id = Max({i \in 1..Len(invoked) : StageAt(i) = "researcher"})
            /\ \A i \in 1..Len(findings) :
                  \A k \in 1..Len(Get(findings[i], "evidence", <<>>)) :
                      LET ev == findings[i].evidence[k]
                          sc == score_source(Get(ev, "source_url", EmptyUrl), NoDate)
                      IN  /\ {"credibility_score", "credibility_tier", "domain"}
                                \subseteq DOMAIN ev
                          /\ ev.credibility_score = sc.score
                          /\ ev.credibility_tier = sc.tier
                          /\ ev.domain = sc.domain
                          /\ "source_url" \in DOMAIN ev =>
                                /\ ev.credibility_score = 10
                                /\ ev.domain = <<"reuters", "com">>

EvidenceScoredWitness ==
    /\ ChallengeInvoked /\ Researches = MAX_RESEARCHER_RETRIES + 1
    /\ "findings" \in DOMAIN results.researcher
    /\ results.researcher.findings[1].evidence[1].credibility_score = 10
    /\ results.researcher.findings[1].evidence[1].credibility_tier = "Tier 1 - Highly Credible"

---------------------------------------------------------------------------
(* Properties of _pace *)

\* C11: with one thread using the pacer (SpecPacer), the timestamps two consecutive
\* acquires record are at least _PACE_DELAY apart, the first acquire of the
\* process does not sleep, and an acquire that arrives _PACE_DELAY or more
\* after the one before does not sleep.
PacerSpacing ==
    acquired # None =>
        /\ acquired.first => acquired.waited = 0
        /\ ~acquired.first =>
              /\ acquired.stamp_gap >= _PACE_DELAY
              /\ acquired.idle >= _PACE_DELAY => acquired.waited = 0
              /\ acquired.idle < _PACE_DELAY =>
                    acquired.waited = _PACE_DELAY - acquired.idle

PacerSpacingWitness ==
    /\ acquired # None
    /\ ~acquired.first /\ acquired.idle = 7 /\ acquired.waited = 8
    /\ acquired.stamp_gap = _PACE_DELAY

\* C12: whichever way the threads that share the pacer interleave
\* (SpecPacerShared), an
\* acquire returns (which it does as it records its timestamp) at least
\* _PACE_DELAY after the acquire that returned before it.
AcquiresSerialized ==
    (acquired # None /\ acquired.stamp_gap >= 0) =>
        acquired.stamp_gap >= _PACE_DELAY

---------------------------------------------------------------------------
(* Properties of _extract_json *)

\* the objects that stand in the text in a fenced block: fence, the tag json
\* or not, the object, fence, with white space between them or not
FencedObjects(t) ==
    {json_loads(SubSeq(t, a, b)) :
        a \in {OpenAt(t, i) : i \in 1..Len(t)} \ {0}, b \in 1..Len(t)} \cap
    {json_loads(SubSeq(t, a, b)) :
        a \in 1..Len(t), b \in {c \in 1..Len(t) : CloseAt(t, c)}} \cap
    {EmptyObject, [answer |-> "a"]}

\* C14: _extract_json returns on every text, without raising; on a text
\* that holds a fenced block with a valid object it returns that object; on
\* a text without braces it returns the sentinel with the text unchanged.
ParserTotal ==
    parsed # None =>
        /\ "raises" \notin DOMAIN parsed
        /\ FencedObjects(text) # {} => parsed \in FencedObjects(text)
        /\ (Braces(text, "{") \cup Braces(text, "}")) = {} =>
              parsed = [raw_response |-> text]

\* opening braces less closing braces in t[a..b]
Depth(t, a, b) ==
    Cardinality({i \in a..b : t[i].tok = "{"}) - Cardinality({i \in a..b : t[i].tok = "}"})

\* t[a..b] is a balanced {...}
Balanced(t, a, b) ==
    /\ t[a].tok = "{" /\ Depth(t, a, b) = 0
    /\ \A c \in a..(b - 1) : Depth(t, a, c) > 0

\* the first balanced {...} of the text, or <<>>
FirstBalanced(t) ==
    LET starts == {a \in 1..Len(t) : \E b \in a..Len(t) : Balanced(t, a, b)}
    IN  IF starts = {} THEN <<>>
        ELSE LET a == Min(starts)
             IN  SubSeq(t, a, CHOOSE b \in a..Len(t) : Balanced(t, a, b))

NoDeepToken(t) == \A i \in 1..Len(t) : t[i].tok # "deep"

\* C22: on a text without a fenced block that parses, _extract_json returns
\* the parse of the first balanced {...} of the text, whatever stands before
\* or after it, further braces and a second object included, and the
\* sentinel only when that parse fails (texts on which json.loads raises
\* RecursionError are left to C14).
FirstBalancedParsed ==
    (parsed # None /\ FencedObjects(text) = {} /\ NoDeepToken(text)) =>
        LET group == FirstBalanced(text)
        IN  parsed = IF group # <<>> /\ ~Caught(json_loads(group))
                     THEN json_loads(group)
                     ELSE [raw_response |-> text]

---------------------------------------------------------------------------
(* Properties of score_source *)

TierLabels ==
    {"Tier 1 - Highly Credible", "Tier 2 - Credible", "Tier 3 - Low Credibility",
     "Tier 4 - Unreliable/Unknown"}

NoHost(u) == u.form # "absolute" \/ u.host = <<>>

\* C16: whatever the url and the date string, score_source returns a score
\* that is an integer from 0 to 10 and one of the four tier labels; a url
\* without a host gives the domain "" and the base score 2 of an unknown
\* domain.
ScoreInRange ==
    \A i \in 1..Len(scored) :
        /\ scored[i].result.score \in 0..10
        /\ scored[i].result.tier \in TierLabels
        /\ NoHost(url) =>
              /\ scored[i].result.domain = <<>>
              /\ scored[i].base = 2
              /\ scored[i].result.tier = "Tier 4 - Unreliable/Unknown"

ScoreInRangeWitness ==
    /\ Len(scored) = 2
    /\ scored[1].base = 10 /\ scored[1].result.recency_modifier = 1
    /\ scored[1].result.score = 10
    /\ scored[2].result.score = 9

ScoreInRangeNoHostWitness ==
    /\ url.form = "invalid" /\ Len(scored) = 1
    /\ scored[1].result.domain = <<>> /\ scored[1].result.score = 1

SubdomainOfTier1(domain) == \E t1 \in TIER_1 : EndsWith(domain, t1)

\* C17, as amended: a host that is a member of the Tier-1 set has the base
\* score 10, and a host that is a strict subdomain of a Tier-1 domain and is
\* not itself a member of the Tier-1 set has the base score 9.
TierMonotone ==
    \A i \in 1..Len(scored) :
        LET domain == scored[i].result.domain
        IN  /\ domain \in TIER_1 => scored[i].base = 10
            /\ (SubdomainOfTier1(domain) /\ domain \notin TIER_1) => scored[i].base = 9

TierMonotoneWitness ==
    /\ scored # <<>>
    /\ scored[1].result.domain = <<"sub", "bbc", "co", "uk">>
    /\ scored[1].base = 9

\* C17, as claimed: every host that is a strict subdomain of a Tier-1 domain
\* has the base score 9.
Tier1SubdomainsScoreNine ==
    \A i \in 1..Len(scored) :
        SubdomainOfTier1(scored[i].result.domain) => scored[i].base = 9

Clamp(n) == IF n < 0 THEN 0 ELSE IF n > 10 THEN 10 ELSE n

Parseable(d) == d.fmt \in DateFormats

\* C18: for a url, the score with a date 30 days old is at least the score
\* with a date 1000 days old; the modifier is +1 below 180 days of age, -1
\* above 730 days, 0 in between and for a date that is missing or in none
\* of the formats; the score is the base plus the modifier, clamped to 0..10.
RecencyOrdering ==
    /\ \A i, j \in 1..Len(scored) :
          (scored[i].date_str.age = Days(30) /\ scored[j].date_str.age = Days(1000)
              /\ scored[i].date_str.fmt # "" /\ scored[j].date_str.fmt # "") =>
                  scored[i].result.score >= scored[j].result.score
    /\ \A i \in 1..Len(scored) :
          LET d == scored[i].date_str
              m == scored[i].result.recency_modifier
          IN  /\ (Parseable(d) /\ d.age < Days(180)) => m = 1
              /\ (Parseable(d) /\ d.age > Days(730)) => m = -1
              /\ (~Parseable(d) \/ (d.age >= Days(180) /\ d.age <= Days(730))) => m = 0
              /\ scored[i].result.score = Clamp(scored[i].base + m)

RecencyOrderingWitness ==
    /\ Len(scored) = 2
    /\ scored[1].date_str = Date("%B %d, %Y", Days(30))
    /\ scored[2].date_str = Date("%Y-%m-%d", Days(1000))
    /\ scored[1].result.score = 5 /\ scored[2].result.score = 3

\* the precedence of the domain rules: the score of the first rule that applies
Precedence ==
    <<[score |-> 10, applies |-> [d \in Hosts \cup {<<>>} |-> d \in TIER_1]],
      [score |-> 7, applies |-> [d \in Hosts \cup {<<>>} |-> d \in TIER_2]],
      [score |-> 4, applies |-> [d \in Hosts \cup {<<>>} |-> d \in TIER_3]],
      [score |-> 9, applies |-> [d \in Hosts \cup {<<>>} |->
            \E tld \in GOV_EDU_TLDS : EndsWith(d, tld)]],
      [score |-> 9, applies |-> [d \in Hosts \cup {<<>>} |->
            \E t1 \in TIER_1 : EndsWith(d, t1)]],
      [score |-> 7, applies |-> [d \in Hosts \cup {<<>>} |->
            \E t2 \in TIER_2 : EndsWith(d, t2)]],
      [score |-> 2, applies |-> [d \in Hosts \cup {<<>>} |-> TRUE]]>>

Reference(d) ==
    Precedence[Min({k \in 1..Len(Precedence) : Precedence[k].applies[d]})].score

\* C23: the base score of every host is the one of the precedence reference
\* (exact Tier 1, exact Tier 2, exact Tier 3, gov/edu suffix, subdomain of
\* Tier 1, subdomain of Tier 2, else 2), and the domain is the host
\* case-folded with one leading www. removed: WWW.Example.COM and
\* example.com give the same domain.
DomainNormalizedAndRanked ==
    \A i \in 1..Len(scored) :
        /\ scored[i].result.domain \in Hosts \cup {<<>>}
        /\ scored[i].base = Reference(scored[i].result.domain)
        /\ (url.form = "absolute"
              /\ url.host \in {<<"WWW", "Example", "COM">>, <<"example", "com">>}) =>
              scored[i].result.domain = <<"example", "com">>
        /\ (url.form = "absolute" /\ url.host = <<"WWW", "REUTERS", "COM">>) =>
              scored[i].result.domain = <<"reuters", "com">> /\ scored[i].base = 10
        /\ (url.form = "absolute" /\ Len(url.host) >= 2 /\ url.host[1] = "www") =>
              scored[i].result.domain = Tail(url.host)
        /\ url.form # "absolute" => scored[i].result.domain = <<>>

DomainNormalizedAndRankedWitness ==
    /\ url = Url("absolute", <<"WWW", "Example", "COM">>)
    /\ Len(scored) >= 1
    /\ scored[1].result.domain = <<"example", "com">>
    /\ scored[1].base = 2

\* the lowest base score of each tier label
TierFloor ==
    [l \in TierLabels |->
        CASE l = "Tier 1 - Highly Credible" -> 9
          [] l = "Tier 2 - Credible" -> 6
          [] l = "Tier 3 - Low Credibility" -> 3
          [] OTHER -> 0]

\* C24: the tier label is the one of the domain's base score alone: a url has
\* the same tier with every date string, also when the recency modifier
\* carries the final score over a tier threshold.
TierOfBaseAlone ==
    \A i \in 1..Len(scored) :
        LET tier == scored[i].result.tier
        IN  /\ tier \in TierLabels
            /\ scored[i].base >= TierFloor[tier]
            /\ \A l \in TierLabels : scored[i].base >= TierFloor[l] => TierFloor[tier] >= TierFloor[l]
            /\ \A j \in 1..Len(scored) : scored[j].result.tier = tier

\* a gov host scored without a date (9) and with an old date (8, below the
\* floor of Tier 1)
TierOfBaseAloneWitness ==
    /\ Len(scored) = 2
    /\ scored[1].base = 9
    /\ scored[1].result.score = 9
    /\ scored[2].result.score = 8
    /\ scored[2].result.recency_modifier = -1
    /\ scored[2].result.tier = "Tier 1 - Highly Credible"

---------------------------------------------------------------------------
(* Properties of the retry step *)

RECURSIVE FlaggedSuggestions(_)
FlaggedSuggestions(findings) ==
    IF findings = <<>> THEN <<>>
    ELSE LET f == Head(findings)
         IN  (IF f.needs_more_research /\ f.research_suggestions # ""
              THEN <<f.research_suggestions>> ELSE <<>>)
                 \o FlaggedSuggestions(Tail(findings))

\* C21: the working claim of a re-research is the original claim followed
\* by the research_suggestions of exactly the findings of the audit before
\* that set needs_more_research; a suggestion of a finding without the flag
\* is left out, and with no suggestion of a flagged finding the working
\* claim is the original claim.
SuggestionsOfFlaggedOnly ==
    \A i \in 2..Len(invoked) :
        (invoked[i].stage = "researcher"
            /\ "audited_findings" \in DOMAIN invoked[i - 1].output) =>
            LET wanted == FlaggedSuggestions(invoked[i - 1].output.audited_findings)
            IN  invoked[i].claim =
                    IF wanted = <<>> THEN claim
                    ELSE claim \o <<". Focus on: ">> \o wanted

---------------------------------------------------------------------------
(* Properties of the returned report and of termination *)

\* the invocations of a stage, by their place in the history
InvocationsOf(stage) == {i \in 1..Len(invoked) : invoked[i].stage = stage}

\* C25: in a returned report, results["skeptic"] is the output of the audit
\* run on the research output stored in results["researcher"]: the latest
\* research is the reported one, the audit that follows it is the latest
\* audit, and its output, not an earlier attempt's, is the reported one.
AuditOfReportedResearch ==
    outcome = "returned" =>
        /\ InvocationsOf("researcher") # {} /\ InvocationsOf("skeptic") # {}
        /\ LET r == Max(InvocationsOf("researcher"))
               k == Max(InvocationsOf("skeptic"))
           IN  /\ report.researcher.id = r
               /\ k = r + 1
               /\ invoked[k].input = report.researcher.id
               /\ invoked[k].returned
               /\ report.skeptic = invoked[k].output
               /\ DOMAIN report.skeptic = DOMAIN invoked[k].output

\* a report after a retry whose first audit said something else than the last
AuditOfReportedResearchWitness ==
    /\ outcome = "returned"
    /\ Cardinality(InvocationsOf("researcher")) >= 2
    /\ invoked[2].stage = "skeptic"
    /\ invoked[2].output # report.skeptic
    /\ report.skeptic = invoked[Max(InvocationsOf("skeptic"))].output
    /\ report.researcher.id = Max(InvocationsOf("researcher"))

\* the steps one call of the generation client can still take
CallSteps ==
    CASE cpc = "pace" -> _MAX_RETRIES + 3
      [] cpc = "attempt" -> (_MAX_RETRIES - attempt) + 2
      [] cpc \in {"returned", "raised"} -> 1
      [] OTHER -> 0

\* the places of run_pipeline, from its end backwards; a retry takes the run
\* from "retry" back to "re_research"
Places ==
    <<"judge", "adjudicate", "adversary", "challenge", "break", "retry", "skeptic",
      "audit", "re_researcher", "re_research", "researcher", "start">>

PlaceOf(p) ==
    IF \E k \in 1..Len(Places) : Places[k] = p
    THEN CHOOSE k \in 1..Len(Places) : Places[k] = p
    ELSE 0

\* a bound on the steps the run can still take
StepsLeft ==
    LET span == _MAX_RETRIES + 4
    IN  IF ~Running THEN 0
        ELSE (max_researcher_retries - retries) * (Len(Places) + 1) * span
                + PlaceOf(pc) * span + CallSteps

\* the steps other than the return of a stage function
StepsOutsideReturn ==
    \/ ResearcherStart \/ SkepticStart \/ SkepticHandsBack \/ ReResearch
    \/ SkepticDone \/ AdversaryStart \/ JudgeStart \/ PipelineRaises \/ CallActions

\* a step is possible: when the client has returned its reply, the stage
\* function that called it parses the reply and returns or raises
CanStep ==
    IF cpc = "returned"
    THEN pc \in {"researcher", "re_researcher", "skeptic", "adversary", "judge"}
    ELSE ENABLED StepsOutsideReturn

\* C26: every run ends with a returned report or a propagated error, whatever
\* the audits say and however the service throttles: while it runs a step is
\* possible, every step lowers a bound on the steps that are left, and there
\* are at most 1 + MAX_RESEARCHER_RETRIES research and as many audit
\* invocations, one challenge and one adjudication, each of at most
\* _MAX_RETRIES attempts.
RunTerminates ==
    /\ [](/\ Cardinality(InvocationsOf("researcher")) <= 1 + max_researcher_retries
          /\ Cardinality(InvocationsOf("skeptic")) <= 1 + max_researcher_retries
          /\ max_researcher_retries <= MAX_RESEARCHER_RETRIES
          /\ Cardinality(InvocationsOf("adversary")) <= 1
          /\ Cardinality(InvocationsOf("judge")) <= 1
          /\ attempt \in 0.._MAX_RETRIES
          /\ cpc = "returned" => attempt + 1 <= _MAX_RETRIES
          /\ (cpc = "raised" /\ error # "rate_limit") => attempt + 1 <= _MAX_RETRIES)
    /\ [](Running => CanStep)
    /\ [](StepsLeft \in Nat /\ (StepsLeft = 0 <=> outcome \in {"returned", "raised"}))
    /\ [][StepsLeft' < StepsLeft]_vars

\* a report after the most invocations, every audit having asked for more
RunTerminatesWitness ==
    /\ outcome = "returned"
    /\ Cardinality(InvocationsOf("researcher")) = 1 + MAX_RESEARCHER_RETRIES
    /\ Cardinality(InvocationsOf("skeptic")) = 1 + MAX_RESEARCHER_RETRIES
    /\ Cardinality(InvocationsOf("adversary")) = 1
    /\ Cardinality(InvocationsOf("judge")) = 1
    /\ \A k \in InvocationsOf("skeptic") :
          NeedsRetry(Get(invoked[k].output, "audited_findings", <<>>))

====
